---- MODULE Spec2Model ----
(***************************************************************************)
(* Model of tools/mvp/svalinn_gate.py: the policy gate verify_policy and   *)
(* the helpers it calls (sanity_check_bundle, trust_store_keys,            *)
(* verify_signature, dsse_pae, decode_statement).                          *)
(*                                                                         *)
(* JSON objects are records; an absent key is a field that is not in the   *)
(* record's DOMAIN, so d.get(k, default) is Get(d, k, default).  JSON      *)
(* lists are sequences.  A JSON object whose iteration order matters       *)
(* (trust_store["keys"]) is a sequence of [role, entries] pairs.           *)
(*                                                                         *)
(* One evaluation of verify_policy is run step by step: pc is the position *)
(* in the function body, the other variables are its locals.               *)
(***************************************************************************)
EXTENDS Integers, Sequences, FiniteSets, TLC

VARIABLES
    bundle, policy, trust_store, image_digest,  \* the arguments of verify_policy
    pc,                \* position inside verify_policy
    keys,              \* line 119
    log_ids,           \* line 120
    seen_predicates,   \* line 135
    seen_signers,      \* line 136
    missing_subjects,  \* line 137
    att,               \* index of the attestation the loop of line 138 is at (0: before)
    sig,               \* index of the signature the loop of line 147 is at (0: before)
    valid_signature,   \* line 146
    result,            \* the outcome: none yet, a Report, a GateError, another exception
    calls              \* every verify_signature call made so far, with its outcome

vars == <<bundle, policy, trust_store, image_digest, pc, keys, log_ids,
          seen_predicates, seen_signers, missing_subjects, att, sig,
          valid_signature, result, calls>>

(***************************************************************************)
(* Bounds of the explored inputs.                                          *)
(***************************************************************************)
MaxAtt == 2      \* attestations per bundle
MaxSigs == 2     \* signatures per attestation
MaxLogs == 2     \* log entries per bundle
MaxQuorum == 2   \* policy.logQuorum

(***************************************************************************)
(* Generic helpers.                                                        *)
(***************************************************************************)
Get(d, k, default) == IF k \in DOMAIN d THEN d[k] ELSE default

Range(s) == {s[i] : i \in 1..Len(s)}

SeqsUpTo(S, n) == UNION {[1..k -> S] : k \in 0..n}

\* Python's string order on the strings the model sorts.
StringOrder == <<"k1", "k2", "k3", "k4", "log-a", "log-b", "log-x", "provenance", "sbom">>

Rank(s) == CHOOSE i \in 1..Len(StringOrder) : StringOrder[i] = s

RECURSIVE sorted(_)
sorted(S) ==
    IF S = {} THEN <<>>
    ELSE LET m == CHOOSE x \in S : \A y \in S : Rank(x) <= Rank(y)
         IN <<m>> \o sorted(S \ {m})

(***************************************************************************)
(* Program constants.                                                      *)
(***************************************************************************)
PAYLOAD_TYPE == "application/vnd.in-toto+json"
BUNDLE_MEDIA_TYPE == "application/vnd.verified-container.bundle+json"
BUNDLE_VERSION == "0.1.0"
ERR_POLICY_DENIED == "ERR_POLICY_DENIED"

(***************************************************************************)
(* dsse_pae: the signed message authenticates the pair (type, payload).    *)
(***************************************************************************)
dsse_pae(payload_type, payload_b64) == <<"DSSEv1", payload_type, payload_b64>>

(***************************************************************************)
(* base64.b64decode: a value is [b64 |-> well padded or not, raw |-> the   *)
(* bytes it decodes to]; decoding an ill-padded value raises               *)
(* binascii.Error.                                                         *)
(***************************************************************************)
b64decode_ok(value) == value.b64

(***************************************************************************)
(* openssl pkeyutl -verify -pubin -rawin: exit status 0 iff the key is a   *)
(* well-formed public key and the signature was made over exactly this     *)
(* message by the matching private key.  A signature's bytes are           *)
(* [by |-> the key pair that signed, msg |-> the message signed].          *)
(***************************************************************************)
WellFormedKeys == {"PK1", "PK2", "PK3", "PK9"}

run_openssl_verify(pub_der, message, signature) ==
    /\ pub_der \in WellFormedKeys
    /\ signature.by = pub_der
    /\ signature.msg = message

(***************************************************************************)
(* verify_signature: "ok" when it returns, else the exception it raises.   *)
(***************************************************************************)
verify_signature(pub_key_b64, payload_b64, signature_b64) ==
    LET payload_bytes == dsse_pae(PAYLOAD_TYPE, payload_b64)
    IN IF ~b64decode_ok(pub_key_b64) THEN "binascii.Error"
       ELSE IF ~b64decode_ok(signature_b64) THEN "binascii.Error"
       ELSE IF run_openssl_verify(pub_key_b64.raw, payload_bytes, signature_b64.raw)
            THEN "ok"
            ELSE "CalledProcessError"

(***************************************************************************)
(* trust_store_keys: the flattened id -> publicKey index; a later record   *)
(* of the same id overwrites an earlier one.                               *)
(***************************************************************************)
RECURSIVE Flatten(_)
Flatten(roles) ==
    IF roles = <<>> THEN <<>> ELSE Head(roles).entries \o Flatten(Tail(roles))

RECURSIVE IndexEntries(_, _)
IndexEntries(entries, acc) ==
    IF entries = <<>> THEN acc
    ELSE LET entry == Head(entries)
             key_id == Get(entry, "id", "")
         IN IndexEntries(Tail(entries),
                IF key_id # "" /\ "publicKey" \in DOMAIN entry
                THEN [k \in DOMAIN acc \cup {key_id} |->
                         IF k = key_id THEN entry.publicKey ELSE acc[k]]
                ELSE acc)

trust_store_keys(ts) == IndexEntries(Flatten(Get(ts, "keys", <<>>)), <<>>)

(***************************************************************************)
(* decode_statement: a payload that is the base64 of a statement's JSON is *)
(* [b64json |-> the statement]; for any other payload b64decode, decode or *)
(* json.loads raises (binascii.Error, UnicodeDecodeError, JSONDecodeError: *)
(* each a ValueError).                                                     *)
(***************************************************************************)
decode_statement_ok(attestation) == "b64json" \in DOMAIN attestation.payload

decode_statement(attestation) == attestation.payload.b64json

(***************************************************************************)
(* sanity_check_bundle: the field of the GateError it raises, "" when it   *)
(* returns.                                                                *)
(***************************************************************************)
IsNonEmptyList(d, k) == k \in DOMAIN d /\ d[k] # <<>>

sanity_check_bundle_reordered(b) ==
    IF Get(b, "mediaType", "") # BUNDLE_MEDIA_TYPE THEN "mediaType"
    ELSE IF ~IsNonEmptyList(b, "logEntries") THEN "logEntries"
    ELSE IF ~IsNonEmptyList(b, "attestations") THEN "attestations"
    ELSE IF Get(b, "version", "") # BUNDLE_VERSION THEN "version"
    ELSE ""

sanity_check_bundle(b) ==
    IF Get(b, "mediaType", "") # BUNDLE_MEDIA_TYPE THEN "mediaType"
    ELSE IF Get(b, "version", "") # BUNDLE_VERSION THEN "version"
    ELSE IF ~IsNonEmptyList(b, "attestations") THEN "attestations"
    ELSE IF ~IsNonEmptyList(b, "logEntries") THEN "logEntries"
    ELSE ""

(***************************************************************************)
(* The locals of verify_policy computed from its arguments, lines 113-115. *)
(***************************************************************************)
required_predicates == Range(policy.requiredPredicates)
allowed_signers == Range(policy.allowedSigners)
log_quorum == Get(policy, "logQuorum", 1)

\* line 120
LogIdSet(b) == LET entries == Get(b, "logEntries", <<>>)
               IN {entries[i].logId : i \in 1..Len(entries)}

\* line 121, over the set of line 120
QuorumCountsEntries(b, quorum) == Len(Get(b, "logEntries", <<>>)) < quorum

QuorumNotSatisfied(b, quorum) == Cardinality(LogIdSet(b)) < quorum

\* line 128
UnknownLogsUnlessNoLogs(ids, ts) ==
    IF "logs" \in DOMAIN ts THEN {l \in ids : l \notin DOMAIN ts.logs} ELSE {}

UnknownLogs(ids, ts) == {l \in ids : l \notin DOMAIN Get(ts, "logs", <<>>)}

\* line 143
DigestMismatchNoPrefix(digest, image) == digest # "" /\ digest # image

DigestMismatch(digest, image) == digest # "" /\ ("sha256:" \o digest) # image

\* lines 141-144: the mismatching digests of one statement, in order
RECURSIVE SubjectMismatches(_, _)
SubjectMismatches(subjects, image) ==
    IF subjects = <<>> THEN <<>>
    ELSE LET digest == Get(Get(Head(subjects), "digest", <<>>), "sha256", "")
         IN (IF DigestMismatch(digest, image) THEN <<digest>> ELSE <<>>)
            \o SubjectMismatches(Tail(subjects), image)

\* lines 149-150
RecordSigner(seen, key_id) == IF key_id # "" THEN seen \cup {key_id} ELSE seen

\* line 151
SignerUsableAnySigner(key_id, allowed, index) == key_id \in DOMAIN index

SignerUsable(key_id, allowed, index) == key_id \in allowed /\ key_id \in DOMAIN index

\* line 155
NoValidSignatureNever(valid) == FALSE

NoValidSignature(valid) == ~valid

\* line 169
MissingPredicatesSwapped(required, seen) == seen \ required

MissingPredicates(required, seen) == required \ seen

(***************************************************************************)
(* Outcomes.                                                               *)
(***************************************************************************)
NoResult == [kind |-> "none"]

GateError(message, error_id, details) ==
    [kind |-> "GateError", message |-> message, error_id |-> error_id, details |-> details]

Uncaught(exception) == [kind |-> "Exception", exception |-> exception]

Report(predicates, signers, logIds) ==
    [kind |-> "Report", predicates |-> predicates, signers |-> signers, logIds |-> logIds]

Attestations == Get(bundle, "attestations", <<>>)

Signatures(a) == Get(Attestations[a], "signatures", <<>>)

(***************************************************************************)
(* The inputs explored.  Keys: every identity k has a key pair KeyPair(k); *)
(* the trust stores below publish some of the public keys, leave some      *)
(* identities out, and carry malformed records.                            *)
(***************************************************************************)
With(d, k, v) == [f \in DOMAIN d \cup {k} |-> IF f = k THEN v ELSE d[f]]

B64(raw) == [b64 |-> TRUE, raw |-> raw]
NotB64 == [b64 |-> FALSE, raw |-> "?"]

KeyPair(key_id) ==
    CASE key_id = "k1" -> "PK1"
      [] key_id = "k2" -> "PK2"
      [] key_id = "k3" -> "PK3"
      [] key_id = "k4" -> "PK4"
      [] OTHER -> "PK9"

Logs(ids) == [l \in ids |-> [operator |-> "sigstore"]]

\* k1, k2 resolvable; k3 has no publicKey; one record has no id;
\* k4's key is not a public key.
TrustStoreA ==
    [keys |-> << [role |-> "root",
                  entries |-> << [id |-> "k1", publicKey |-> B64("PK1")],
                                 [id |-> "k3"],
                                 [publicKey |-> B64("PK9")] >>],
                 [role |-> "signer",
                  entries |-> << [id |-> "k2", publicKey |-> B64("PK2")],
                                 [id |-> "k4", publicKey |-> B64("garbage")] >>] >>,
     logs |-> Logs({"log-a", "log-b"})]

\* k1 listed twice (the later record holds its key), k3 resolvable, k2 not
\* listed, an empty id, k4's key is not base64.
TrustStoreB ==
    [keys |-> << [role |-> "root",
                  entries |-> << [id |-> "k1", publicKey |-> B64("PK2")],
                                 [id |-> "", publicKey |-> B64("PK9")],
                                 [id |-> "k4", publicKey |-> NotB64] >>],
                 [role |-> "signer",
                  entries |-> << [id |-> "k1", publicKey |-> B64("PK1")],
                                 [id |-> "k3", publicKey |-> B64("PK3")] >>] >>,
     logs |-> Logs({"log-a"})]

\* no "logs" key at all
TrustStoreC ==
    [keys |-> << [role |-> "root",
                  entries |-> << [id |-> "k1", publicKey |-> B64("PK1")] >>] >>]

Subject(d) == IF d = "none" THEN [name |-> "image"]
              ELSE [name |-> "image", digest |-> [sha256 |-> d]]

Statement(predicate_type, digests) ==
    [predicateType |-> predicate_type,
     subject |-> [i \in 1..Len(digests) |-> Subject(digests[i])]]

Payload(statement) == [b64json |-> statement]

GarbledPayload == [text |-> "not the base64 of a JSON document"]

TamperedPayload == Payload(Statement("tampered", <<>>))

\* A signature of kind "good" is made by key_id's own key pair over the
\* attestation's payload, "bad" over another payload; "notb64" is ill padded.
Signature(key_id, kind, payload) ==
    [keyid |-> key_id,
     sig |-> IF kind = "notb64" THEN NotB64
             ELSE B64([by |-> KeyPair(key_id),
                       msg |-> dsse_pae(PAYLOAD_TYPE,
                                  IF kind = "bad" THEN TamperedPayload ELSE payload)])]

Attestation(payload, sigs) ==
    [payload |-> payload,
     signatures |-> [i \in 1..Len(sigs) |-> Signature(sigs[i][1], sigs[i][2], payload)]]

PredicateTypes == {"provenance", "sbom"}

SignatureKinds ==
    {<<"k1", "good">>, <<"k1", "bad">>, <<"k1", "notb64">>, <<"k2", "good">>,
     <<"k3", "good">>, <<"k4", "good">>, <<"", "good">>}

Payloads ==
    {Payload(Statement("provenance", <<"aa">>)),
     Payload(Statement("sbom", <<"bb">>)),
     Payload(Statement("provenance", <<"none">>)),
     GarbledPayload}

SubjectLists == {<<>>, <<"aa">>, <<"bb">>, <<"none", "">>, <<"cc", "bb">>, <<"bb", "aa">>}

LogEntries(ids) == [i \in 1..Len(ids) |-> [logId |-> ids[i]]]

Envelope(attestations, log_entries) ==
    [mediaType |-> BUNDLE_MEDIA_TYPE, version |-> BUNDLE_VERSION,
     attestations |-> attestations, logEntries |-> log_entries]

Policy(required, allowed) == [requiredPredicates |-> required, allowedSigners |-> allowed]

Arguments(b, p, ts, image) ==
    /\ bundle = b
    /\ policy = p
    /\ trust_store = ts
    /\ image_digest = image

\* One attestation with up to MaxSigs signatures.
SignatureInputs ==
    \E payload \in Payloads, n \in 0..MaxSigs,
       required \in {<<"provenance">>, <<"sbom", "provenance">>},
       pt \in {<< <<"k3", "k1", "k4">>, TrustStoreA>>,
               << <<"k3", "k1", "k4">>, TrustStoreB>>,
               << <<"k2">>, TrustStoreA>>} :
        \E sigs \in [1..n -> SignatureKinds] :
            Arguments(Envelope(<<Attestation(payload, sigs)>>,
                               LogEntries(<<"log-a">>)),
                      Policy(required, pt[1]), pt[2], "sha256:aa")

\* Up to MaxAtt attestations with at most one signature each.
SingleSigned ==
    {Attestation(payload, sigs) :
        payload \in Payloads, sigs \in {<<>>} \cup {<<k>> : k \in SignatureKinds}}

AttestationInputs ==
    \E n \in 1..MaxAtt,
       required \in {<<"provenance">>, <<"sbom", "provenance">>},
       pt \in {<< <<"k3", "k1", "k4">>, TrustStoreA>>,
               << <<"k2">>, TrustStoreA>>} :
        \E atts \in [1..n -> SingleSigned] :
            Arguments(Envelope(atts, LogEntries(<<"log-b", "log-a">>)),
                      Policy(required, pt[1]), pt[2], "sha256:aa")

\* Up to MaxAtt attestations signed by k1 or by k2, over every subject list.
DigestAttestations ==
    {Attestation(Payload(Statement(p, digests)), <<s>>) :
        p \in PredicateTypes, digests \in SubjectLists,
        s \in {<<"k1", "good">>, <<"k2", "good">>}}

DigestInputs ==
    \E n \in 1..MaxAtt,
       required \in {<<>>, <<"sbom", "provenance">>},
       image \in {"sha256:aa", "aa"} :
        \E atts \in [1..n -> DigestAttestations] :
            Arguments(Envelope(atts, LogEntries(<<"log-a">>)),
                      Policy(required, <<"k1">>), TrustStoreA, image)

\* The envelope, the log entries and the quorum, over a signed and an
\* unsigned attestation.
EnvelopeBundles ==
    LET shapes == {[mediaType |-> m, version |-> v] :
                      m \in {BUNDLE_MEDIA_TYPE, "application/json"},
                      v \in {BUNDLE_VERSION, "0.1.1"}}
        withAtts == shapes \cup
                    {With(b, "attestations", a) :
                        b \in shapes,
                        a \in {<<>>,
                               <<Attestation(Payload(Statement("provenance", <<"aa">>)),
                                             << <<"k1", "good">> >>)>>,
                               <<Attestation(Payload(Statement("sbom", <<"bb">>)), <<>>)>>}}
    IN withAtts \cup
       {With(b, "logEntries", LogEntries(ids)) :
           b \in withAtts, ids \in SeqsUpTo({"log-a", "log-b", "log-x"}, MaxLogs)}

EnvelopeInputs ==
    \E b \in EnvelopeBundles,
       p \in {Policy(<<"provenance">>, <<"k1">>)} \cup
             {With(Policy(<<"provenance">>, <<"k1">>), "logQuorum", q) : q \in 1..MaxQuorum},
       ts \in {TrustStoreA, TrustStoreB, TrustStoreC} :
        Arguments(b, p, ts, "sha256:aa")

Init ==
    /\ \/ SignatureInputs
       \/ AttestationInputs
       \/ DigestInputs
       \/ EnvelopeInputs
    /\ pc = "start"
    /\ keys = <<>>
    /\ log_ids = {}
    /\ seen_predicates = {}
    /\ seen_signers = {}
    /\ missing_subjects = <<>>
    /\ att = 0
    /\ sig = 0
    /\ valid_signature = FALSE
    /\ result = NoResult
    /\ calls = {}

(***************************************************************************)
(* verify_policy, one action per step of its body.                         *)
(***************************************************************************)
Raise(outcome) == result' = outcome /\ pc' = "done"

\* lines 113-117: the locals and the call of sanity_check_bundle
SanityCheck ==
    /\ pc = "start"
    /\ LET field == sanity_check_bundle(bundle)
       IN IF field # ""
          THEN Raise(GateError(
                   CASE field = "mediaType" -> "invalid mediaType"
                     [] field = "version" -> "unsupported bundle version"
                     [] field = "attestations" -> "attestations required"
                     [] OTHER -> "logEntries required",
                   ERR_POLICY_DENIED, [field |-> field]))
          ELSE pc' = "quorum" /\ UNCHANGED result
    /\ UNCHANGED <<bundle, policy, trust_store, image_digest, keys, log_ids,
                   seen_predicates, seen_signers, missing_subjects, att, sig,
                   valid_signature, calls>>

\* lines 119-126: the key index, the distinct log ids and the quorum
QuorumCheck ==
    /\ pc = "quorum"
    /\ keys' = trust_store_keys(trust_store)
    /\ log_ids' = LogIdSet(bundle)
    /\ IF QuorumNotSatisfied(bundle, log_quorum)
       THEN Raise(GateError("log quorum not satisfied", ERR_POLICY_DENIED,
                      [required |-> log_quorum, observed |-> Cardinality(log_ids')]))
       ELSE pc' = "logs" /\ UNCHANGED result
    /\ UNCHANGED <<bundle, policy, trust_store, image_digest, seen_predicates,
                   seen_signers, missing_subjects, att, sig, valid_signature, calls>>

\* lines 127-137: the loop over the set log_ids raises at the first unknown
\* log it meets; a set is iterated in no fixed order, so that may be any of
\* the unknown ones.  Then the accumulators are initialised.
LogCheck ==
    /\ pc = "logs"
    /\ LET unknown == UnknownLogs(log_ids, trust_store)
       IN IF unknown # {}
          THEN \E log_id \in unknown :
                   Raise(GateError("unknown log operator", ERR_POLICY_DENIED,
                             [logId |-> log_id]))
          ELSE pc' = "attestation" /\ UNCHANGED result
    /\ seen_predicates' = {}
    /\ seen_signers' = {}
    /\ missing_subjects' = <<>>
    /\ UNCHANGED <<bundle, policy, trust_store, image_digest, keys, log_ids,
                   att, sig, valid_signature, calls>>

\* lines 138-146: the next attestation, its statement, predicate and subjects
NextAttestation ==
    /\ pc = "attestation"
    /\ att < Len(Attestations)
    /\ att' = att + 1
    /\ IF decode_statement_ok(Attestations[att'])
       THEN LET statement == decode_statement(Attestations[att'])
            IN /\ seen_predicates' = seen_predicates \cup {statement.predicateType}
               /\ missing_subjects' = missing_subjects
                      \o SubjectMismatches(Get(statement, "subject", <<>>), image_digest)
               /\ valid_signature' = FALSE
               /\ sig' = 0
               /\ pc' = "signatures"
               /\ UNCHANGED result
       ELSE /\ Raise(Uncaught("ValueError"))
            /\ UNCHANGED <<seen_predicates, missing_subjects, valid_signature, sig>>
    /\ UNCHANGED <<bundle, policy, trust_store, image_digest, keys, log_ids,
                   seen_signers, calls>>

\* lines 147-154: one iteration of the loop over the signatures
ScanSignature ==
    /\ pc = "signatures"
    /\ sig < Len(Signatures(att))
    /\ sig' = sig + 1
    /\ LET signature == Signatures(att)[sig']
           key_id == Get(signature, "keyid", "")
       IN /\ seen_signers' = RecordSigner(seen_signers, key_id)
          /\ IF SignerUsable(key_id, allowed_signers, keys)
             THEN LET outcome == verify_signature(keys[key_id],
                                     Attestations[att].payload, signature.sig)
                  IN /\ calls' = calls \cup {[att |-> att, sig |-> sig',
                                             key_id |-> key_id, outcome |-> outcome]}
                     /\ IF outcome = "ok"
                        THEN /\ valid_signature' = TRUE
                             /\ pc' = "signer_check"
                             /\ UNCHANGED result
                        ELSE /\ Raise(Uncaught(outcome))
                             /\ UNCHANGED valid_signature
             ELSE UNCHANGED <<pc, valid_signature, result, calls>>
    /\ UNCHANGED <<bundle, policy, trust_store, image_digest, keys, log_ids,
                   seen_predicates, missing_subjects, att>>

\* lines 155-160: after the loop over the signatures (exhausted or left by break)
SignerCheck ==
    /\ \/ pc = "signer_check"
       \/ pc = "signatures" /\ sig = Len(Signatures(att))
    /\ IF NoValidSignature(valid_signature)
       THEN Raise(GateError("no valid signature for allowed signer", ERR_POLICY_DENIED,
                      [allowed |-> sorted(allowed_signers), seen |-> sorted(seen_signers)]))
       ELSE pc' = "attestation" /\ UNCHANGED result
    /\ UNCHANGED <<bundle, policy, trust_store, image_digest, keys, log_ids,
                   seen_predicates, seen_signers, missing_subjects, att, sig,
                   valid_signature, calls>>

\* lines 162-167: after the loop over the attestations
SubjectCheck ==
    /\ pc = "attestation"
    /\ att = Len(Attestations)
    /\ IF missing_subjects # <<>>
       THEN Raise(GateError("subject digest mismatch", ERR_POLICY_DENIED,
                      [expected |-> image_digest, observed |-> missing_subjects]))
       ELSE pc' = "predicates" /\ UNCHANGED result
    /\ UNCHANGED <<bundle, policy, trust_store, image_digest, keys, log_ids,
                   seen_predicates, seen_signers, missing_subjects, att, sig,
                   valid_signature, calls>>

\* lines 169-181
PredicateCheck ==
    /\ pc = "predicates"
    /\ LET missing_predicates == MissingPredicates(required_predicates, seen_predicates)
       IN IF missing_predicates # {}
          THEN Raise(GateError("missing required predicates", ERR_POLICY_DENIED,
                         [missing |-> sorted(missing_predicates)]))
          ELSE Raise(Report(sorted(seen_predicates), sorted(seen_signers),
                            sorted(log_ids)))
    /\ UNCHANGED <<bundle, policy, trust_store, image_digest, keys, log_ids,
                   seen_predicates, seen_signers, missing_subjects, att, sig,
                   valid_signature, calls>>

Next ==
    \/ SanityCheck
    \/ QuorumCheck
    \/ LogCheck
    \/ NextAttestation
    \/ ScanSignature
    \/ SignerCheck
    \/ SubjectCheck
    \/ PredicateCheck

Spec == Init /\ [][Next]_vars

(***************************************************************************)
(* Vocabulary of the properties, stated on the arguments of verify_policy  *)
(* and on its outcome.                                                     *)
(***************************************************************************)
Done == pc = "done"

Admitted == result.kind = "Report"

Denied(message) == result.kind = "GateError" /\ result.message = message

SignerDenial == Denied("no valid signature for allowed signer")
DigestDenial == Denied("subject digest mismatch")
PredicateDenial == Denied("missing required predicates")
QuorumDenial == Denied("log quorum not satisfied")
LogDenial == Denied("unknown log operator")

Allowed == {policy.allowedSigners[i] : i \in 1..Len(policy.allowedSigners)}

Required == {policy.requiredPredicates[i] : i \in 1..Len(policy.requiredPredicates)}

Quorum == IF "logQuorum" \in DOMAIN policy THEN policy.logQuorum ELSE 1

MediaTypeOk == "mediaType" \in DOMAIN bundle /\ bundle.mediaType = BUNDLE_MEDIA_TYPE
VersionOk == "version" \in DOMAIN bundle /\ bundle.version = BUNDLE_VERSION
AttestationsOk == "attestations" \in DOMAIN bundle /\ Len(bundle.attestations) > 0
LogEntriesOk == "logEntries" \in DOMAIN bundle /\ Len(bundle.logEntries) > 0

ValidEnvelope == MediaTypeOk /\ VersionOk /\ AttestationsOk /\ LogEntriesOk

DistinctLogs ==
    IF "logEntries" \in DOMAIN bundle
    THEN {bundle.logEntries[i].logId : i \in 1..Len(bundle.logEntries)}
    ELSE {}

RecognizedLogs == IF "logs" \in DOMAIN trust_store THEN DOMAIN trust_store.logs ELSE {}

KeyRecords ==
    UNION {Range(trust_store.keys[r].entries) : r \in 1..Len(trust_store.keys)}

\* a key record with a non-empty id and a publicKey names key_id
Resolvable(key_id) ==
    /\ key_id # ""
    /\ \E entry \in KeyRecords :
           "id" \in DOMAIN entry /\ entry.id = key_id /\ "publicKey" \in DOMAIN entry

Indices == 1..Len(Attestations)

\* the payload of attestation a is the base64 of a statement's JSON
Decodes(a) == "b64json" \in DOMAIN Attestations[a].payload

KeyId(a, s) == Signatures(a)[s].keyid

\* verify_signature was called on signature s of attestation a and returned
VerifiedOk(a, s) ==
    [att |-> a, sig |-> s, key_id |-> KeyId(a, s), outcome |-> "ok"] \in calls

\* signature s of attestation a was made over that attestation's payload
SignsPayload(a, s) ==
    LET signature == Signatures(a)[s].sig
    IN /\ signature.b64
       /\ signature.raw.msg = <<"DSSEv1", PAYLOAD_TYPE, Attestations[a].payload>>

\* signature s of attestation a is one the verifier accepts for an allowed,
\* resolvable signer
Verifies(a, s) ==
    /\ KeyId(a, s) \in Allowed
    /\ Resolvable(KeyId(a, s))
    /\ verify_signature(trust_store_keys(trust_store)[KeyId(a, s)],
                        Attestations[a].payload, Signatures(a)[s].sig) = "ok"

SignerValidated(a) == \E s \in 1..Len(Signatures(a)) : VerifiedOk(a, s)

ObservedPredicates ==
    {Attestations[a].payload.b64json.predicateType : a \in {i \in Indices : Decodes(i)}}

\* the sha256 digests of the subjects of attestation a, "" where there is none
Digests(a) ==
    IF Decodes(a)
    THEN LET subjects == Attestations[a].payload.b64json.subject
         IN [i \in 1..Len(subjects) |->
                IF "digest" \in DOMAIN subjects[i] THEN subjects[i].digest.sha256 ELSE ""]
    ELSE <<>>

Differs(d) == d # "" /\ ("sha256:" \o d) # image_digest

RECURSIVE MismatchesFrom(_)
MismatchesFrom(a) ==
    IF a > Len(Attestations) THEN <<>>
    ELSE SelectSeq(Digests(a), Differs) \o MismatchesFrom(a + 1)

IsSorted(s) == \A i, j \in 1..Len(s) : i < j => Rank(s[i]) < Rank(s[j])

NoAttestationProcessed == att = 0 /\ calls = {} /\ seen_predicates = {}

\* every attestation decodes and carries a signature that verifies for an
\* allowed, resolvable signer
AllSignedByAllowed ==
    \A a \in Indices : Decodes(a) /\ \E s \in 1..Len(Signatures(a)) : Verifies(a, s)

\* the bundle meets every precondition of admission
Admissible ==
    /\ ValidEnvelope
    /\ AllSignedByAllowed
    /\ MismatchesFrom(1) = <<>>
    /\ Required \subseteq ObservedPredicates
    /\ Cardinality(DistinctLogs) >= Quorum
    /\ DistinctLogs \subseteq RecognizedLogs

\* the only signature of attestation a has a keyid outside allowedSigners
OnlySignerNotAllowed(a) == Len(Signatures(a)) = 1 /\ KeyId(a, 1) \notin Allowed

\* neither the subject digest check nor the predicate check has produced
\* an outcome
NoAggregateCheck ==
    pc # "predicates" /\ ~DigestDenial /\ ~PredicateDenial /\ ~Admitted

\* the signer denial, its details listing the allowed signers and key_id as seen
SignerDenialNaming(key_id) ==
    /\ SignerDenial
    /\ result.error_id = ERR_POLICY_DENIED
    /\ DOMAIN result.details = {"allowed", "seen"}
    /\ result.details.allowed = sorted(Allowed)
    /\ key_id \in Range(result.details.seen)

\* the bundle validator's denial for field, raised before anything else ran
FieldDenial(field) ==
    /\ result.kind = "GateError"
    /\ result.error_id = ERR_POLICY_DENIED
    /\ result.details = [field |-> field]
    /\ log_ids = {}
    /\ NoAttestationProcessed

(***************************************************************************)
(* C1.  Admission soundness: whenever a Report is returned, every          *)
(* attestation has a signature whose keyid is in policy.allowedSigners, is *)
(* named by a key record with a non-empty id and a publicKey, and on which *)
(* the verifier succeeded over that attestation's payload; the verifier is *)
(* never run for, and no attestation is ever validated by, a signer that   *)
(* is not resolvable.                                                      *)
(***************************************************************************)
C1_AdmissionSoundness ==
    /\ Admitted =>
           \A a \in Indices : \E s \in 1..Len(Signatures(a)) :
               /\ KeyId(a, s) \in Allowed
               /\ Resolvable(KeyId(a, s))
               /\ VerifiedOk(a, s)
               /\ SignsPayload(a, s)
    /\ \A c \in calls : Resolvable(c.key_id) /\ c.key_id \in Allowed
    /\ (pc \in {"signatures", "signer_check"} /\ valid_signature) =>
           \E c \in calls : c.att = att /\ c.outcome = "ok"

\* C1 witness: admitted although a signature of an allowed, unresolvable
\* signer precedes the validating one
C1_Witness ==
    /\ Admitted
    /\ \E a \in Indices : \E s \in 1..Len(Signatures(a)) :
           KeyId(a, s) \in Allowed /\ ~Resolvable(KeyId(a, s))

(***************************************************************************)
(* C2.  Any failure inside the signature verifier (undecodable key or      *)
(* signature, malformed key, rejected signature) reaches the caller of     *)
(* verify_policy as a GateError with error id ERR_POLICY_DENIED.           *)
(***************************************************************************)
C2_VerifierFailureIsDenial ==
    (Done /\ \E c \in calls : c.outcome # "ok") =>
        result.kind = "GateError" /\ result.error_id = ERR_POLICY_DENIED

(***************************************************************************)
(* C3.  Admission completeness: a structurally valid bundle in which every *)
(* attestation carries a verifying signature of an allowed, resolvable     *)
(* signer, no subject digest differs from imageDigest, every required      *)
(* predicate is observed and the distinct log ids are all recognized and   *)
(* at least logQuorum, ends in a Report of the sorted observed predicates, *)
(* key ids and log ids.                                                    *)
(***************************************************************************)
C3_AdmissionCompleteness ==
    (Done /\ Admissible) =>
        /\ Admitted
        /\ result.predicates = sorted(ObservedPredicates)
        /\ result.logIds = sorted(DistinctLogs)
        /\ result.signers = sorted(seen_signers)
        /\ IsSorted(result.signers)
        /\ \A a \in Indices : \E s \in 1..Len(Signatures(a)) :
               Verifies(a, s) /\ KeyId(a, s) \in Range(result.signers)

C5_QuorumCountsDistinct ==
    (Done /\ ValidEnvelope /\ Cardinality(DistinctLogs) < Quorum) =>
        /\ QuorumDenial
        /\ result.error_id = ERR_POLICY_DENIED
        /\ result.details = [required |-> Quorum, observed |-> Cardinality(DistinctLogs)]
        /\ NoAttestationProcessed

\* C5 witness: as many entries as the quorum, all of one log, the
\* attestations signed by an allowed signer
C5_Witness ==
    /\ Done /\ QuorumDenial
    /\ Len(bundle.logEntries) >= Quorum
    /\ result.details.observed = 1
    /\ AllSignedByAllowed

(***************************************************************************)
(* C6.  Quorum is met only by recognized operators: a bundle that passes   *)
(* the bundle validator and has a logId that is no key of the trust        *)
(* store's logs is denied before any attestation is processed, and once    *)
(* the distinct ids meet logQuorum the denial carries an unrecognized      *)
(* logId, even when the recognized ids alone meet the quorum.  Every logId *)
(* of a Report is recognized and a Report has at least logQuorum log ids.  *)
(***************************************************************************)
C6_RecognizedLogsOnly ==
    /\ (Done /\ ValidEnvelope /\ ~(DistinctLogs \subseteq RecognizedLogs)) =>
           /\ result.kind = "GateError"
           /\ result.error_id = ERR_POLICY_DENIED
           /\ NoAttestationProcessed
           /\ Cardinality(DistinctLogs) >= Quorum =>
                  /\ LogDenial
                  /\ DOMAIN result.details = {"logId"}
                  /\ result.details.logId \in DistinctLogs \ RecognizedLogs
    /\ Admitted =>
           /\ Range(result.logIds) \subseteq RecognizedLogs
           /\ Len(result.logIds) >= Quorum

\* C6 witness: denied for an unknown log although the recognized logs meet
\* the quorum and the attestations are signed by an allowed signer
C6_Witness ==
    /\ Done /\ LogDenial
    /\ Cardinality(DistinctLogs \cap RecognizedLogs) >= Quorum
    /\ AllSignedByAllowed

(***************************************************************************)
(* C7.  Predicate coverage: the missing-predicate denial lists exactly the *)
(* sorted requiredPredicates minus the observed predicate types; a bundle  *)
(* that passes every earlier check and misses a required predicate gets    *)
(* that denial; a Report is returned only when every required predicate    *)
(* type was observed, each attestation having passed signer validation.    *)
(***************************************************************************)
C7_PredicateCoverage ==
    /\ PredicateDenial =>
           /\ result.error_id = ERR_POLICY_DENIED
           /\ result.details = [missing |-> sorted(Required \ ObservedPredicates)]
           /\ Required \ ObservedPredicates # {}
    /\ (Done /\ ~(Required \subseteq ObservedPredicates)) => ~Admitted
    /\ (Done /\ ~(Required \subseteq ObservedPredicates)
             /\ ValidEnvelope
             /\ Cardinality(DistinctLogs) >= Quorum
             /\ DistinctLogs \subseteq RecognizedLogs
             /\ \A a \in Indices : SignerValidated(a)
             /\ MismatchesFrom(1) = <<>>) => PredicateDenial
    /\ Admitted =>
           /\ Required \subseteq ObservedPredicates
           /\ \A a \in Indices : SignerValidated(a)

\* C7 witness: one of two required predicates observed
C7_Witness ==
    /\ PredicateDenial
    /\ Len(result.details.missing) = 1
    /\ ObservedPredicates \cap Required # {}

(***************************************************************************)
(* C8.  Subject digest binding: when every attestation has passed signer   *)
(* validation and some subject's sha256 digest, as sha256:<digest>,        *)
(* differs from imageDigest, the outcome is the denial with expected =     *)
(* imageDigest and observed = all mismatching digests in bundle order,     *)
(* also when a required predicate is missing; a Report implies that every  *)
(* present sha256 digest matches; subjects without one are ignored.        *)
(***************************************************************************)
C8_SubjectBinding ==
    /\ (Done /\ (\A a \in Indices : SignerValidated(a)) /\ MismatchesFrom(1) # <<>>) =>
           /\ DigestDenial
           /\ result.error_id = ERR_POLICY_DENIED
           /\ result.details = [expected |-> image_digest, observed |-> MismatchesFrom(1)]
    /\ DigestDenial => \A a \in Indices : SignerValidated(a)
    /\ Admitted =>
           \A a \in Indices : \A i \in 1..Len(Digests(a)) :
               Digests(a)[i] = "" \/ ("sha256:" \o Digests(a)[i]) = image_digest

\* C8 witness: two mismatching digests reported in order, a subject without
\* a digest, a required predicate missing
C8_Witness ==
    /\ DigestDenial
    /\ Len(result.details.observed) >= 2
    /\ result.details.observed[1] # result.details.observed[2]
    /\ ~(Required \subseteq ObservedPredicates)
    /\ \E a \in Indices : \E i \in 1..Len(Digests(a)) : Digests(a)[i] = ""

(***************************************************************************)
(* C9.  Bundle validator ordering: mediaType, version, attestations and    *)
(* logEntries are checked in that order and the denial names the first     *)
(* that fails; it is raised before any quorum, log operator or attestation *)
(* check.                                                                  *)
(***************************************************************************)
C9_ValidatorOrder ==
    /\ (Done /\ ~MediaTypeOk) => FieldDenial("mediaType")
    /\ (Done /\ MediaTypeOk /\ ~VersionOk) => FieldDenial("version")
    /\ (Done /\ MediaTypeOk /\ VersionOk /\ ~AttestationsOk) => FieldDenial("attestations")
    /\ (Done /\ MediaTypeOk /\ VersionOk /\ AttestationsOk /\ ~LogEntriesOk) =>
           FieldDenial("logEntries")
    /\ (Done /\ ValidEnvelope) =>
           ~(result.kind = "GateError" /\ "field" \in DOMAIN result.details)

\* C9 witness: a wrong version, no attestations and no logEntries that
\* would meet the quorum: the version is reported
C9_Witness ==
    /\ Done
    /\ MediaTypeOk /\ ~VersionOk /\ ~AttestationsOk /\ ~LogEntriesOk
    /\ Cardinality(DistinctLogs) < Quorum
    /\ FieldDenial("version")

(***************************************************************************)
(* C10.  Per-attestation signature scan: the signatures are examined in    *)
(* order, every non-empty keyid examined is recorded, the verifier runs    *)
(* only for allowed, resolvable keyids, the scan stops at the first        *)
(* signature that verifies, and a signature that is skipped or fails       *)
(* verification does not end the scan: an attestation whose statement      *)
(* decoded and which the evaluation ended at, or has gone past, is         *)
(* signer-validated iff one of its signatures verifies for an allowed,     *)
(* resolvable signer.                                                      *)
(***************************************************************************)
C10_SignatureScan ==
    /\ \A c \in calls : c.key_id \in Allowed /\ Resolvable(c.key_id)
    /\ \A a \in Indices : \A s \in 1..Len(Signatures(a)) :
           VerifiedOk(a, s) => \A t \in 1..(s - 1) : ~Verifies(a, t)
    /\ pc \in {"signatures", "signer_check"} =>
           ({KeyId(att, s) : s \in 1..sig} \ {""}) \subseteq seen_signers
    /\ Done => \A a \in 1..att : Decodes(a) =>
           ((\E s \in 1..Len(Signatures(a)) : Verifies(a, s)) <=> SignerValidated(a))

====
